---- MODULE Spec2Model ----
(***************************************************************************)
(* Model of st2common/models/db/auth.py: the UserDB, TokenDB, SSORequestDB *)
(* and ApiKeyDB records, ApiKeyDB.__init__ / mask_secrets and              *)
(* UserDB.get_roles, together with the collaborators they delegate to      *)
(* (field validation and unique indexes of the persistence layer, the uid  *)
(* mixin, the RBAC backend).                                               *)
(***************************************************************************)
EXTENDS Integers, Sequences, FiniteSets, TLC

(***************************************************************************)
(* Bounds of the model.                                                    *)
(***************************************************************************)
\* dict objects (serialized representations) that may live on the heap
MaxReps == 3
\* callers that create, update and delete records at the same time
MaxCallers == 2
\* the last instant of the UTC clock
MaxTime == 3
\* Token and SSO Request records that may be created
MaxRecords == 2
\* role assignments the RBAC backend may hold for a user
MaxRoles == 2

(***************************************************************************)
(* Values.                                                                 *)
(***************************************************************************)
\* st2common.constants.secrets.MASKED_ATTRIBUTE_VALUE
MASKED_ATTRIBUTE_VALUE == "***"
\* ApiKeyDB.RESOURCE_TYPE = ResourceType.API_KEY
RESOURCE_TYPE == "api_key"
\* ApiKeyDB.UID_FIELDS = ["key_hash"]
UID_FIELDS == <<"key_hash">>
UserNames == {"alice", "bob"}
KeyHashes == {"h1", "h2"}
MetaKeys == {"note", "tag"}

(***************************************************************************)
(* Documents.  A document is a function from field names to values; a      *)
(* field whose value is None is outside the function's domain.             *)
(***************************************************************************)
\* the document d with field f set to v
Put(d, f, v) == [g \in DOMAIN d \cup {f} |-> IF g = f THEN v ELSE d[g]]

\* the document d with field f set to None
Unset(d, f) == [g \in DOMAIN d \ {f} |-> d[g]]

IsNone(d, f) == f \notin DOMAIN d

\* UIDFieldMixin.get_uid: the resource type and the value of every UID
\* field (None counts as the empty string), joined by ":"
get_uid(self) ==
    LET part(i) == IF IsNone(self, UID_FIELDS[i]) THEN "" ELSE self[UID_FIELDS[i]]
    IN  RESOURCE_TYPE \o ":" \o part(1)

derive_uid(key_hash) == get_uid([key_hash |-> key_hash])

VARIABLES
    reps,      \* heap of top-level dicts: Seq of representations, address = index
    metas,     \* heap of nested dicts (the metadata mappings), address = index
    call,      \* <<>> or <<c>>: the last mask_secrets call, its argument and result by value
    touched,   \* address of the representation whose nested dict the caller changed last
    mem,       \* per caller: the record object it holds in memory and its last store operation
    store,     \* per document class: the persisted documents, each with its surrogate id
    now,       \* the UTC clock
    records,   \* the Token and SSO Request records created so far, deleted ones included
    backend,   \* the configured RBAC backend, "none" when none is configured
    roles,     \* the RBAC backend's role assignments of the user it knows, in its order
    rbacCalls, \* the calls the last get_roles made to the backend, each with its reply
    ret        \* <<>> or <<r>>: the last get_roles call, its arguments and outcome

maskVars == <<reps, metas, call, touched>>

docVars == <<mem, store>>

timeVars == <<now, records>>

roleVars == <<backend, roles, rbacCalls, ret>>

notMask == <<docVars, timeVars, roleVars>>

notDocs == <<maskVars, timeVars, roleVars>>

notTime == <<maskVars, docVars, roleVars>>

notRoles == <<maskVars, docVars, timeVars>>

vars == <<reps, metas, call, touched, mem, store, now, records, backend, roles, rbacCalls, ret>>

(***************************************************************************)
(* ApiKeyDB.mask_secrets over a heap of dicts.                             *)
(***************************************************************************)
\* what a caller can put in the free-form metadata of a key with hash kh
MetaVals(kh) == {"x", kh, derive_uid(kh)}

\* the value of the dict at address a, nested dict included
DeepValue(a) ==
    [id |-> reps[a].id, user |-> reps[a].user, key_hash |-> reps[a].key_hash,
     uid |-> reps[a].uid, created_at |-> reps[a].created_at,
     enabled |-> reps[a].enabled, metadata |-> metas[reps[a].metadata]]

InitMask ==
    /\ reps = << >>
    /\ metas = << >>
    /\ call = << >>
    /\ touched = 0

\* export(record): the serialized ApiKeyDB, every field of the record, uid as
\* __init__ set it, at address 1
Export(kh, u, en, md) ==
    /\ Len(reps) = 0
    /\ reps' = << [id |-> "id1", user |-> u, key_hash |-> kh,
                   uid |-> derive_uid(kh), created_at |-> "now",
                   enabled |-> en, metadata |-> 1] >>
    /\ metas' = << md >>
    /\ UNCHANGED <<call, touched, notMask>>

\* copy.copy: a new top-level dict whose nested dict is the argument's own
shallowcopy(a) == [rep |-> reps[a], nested |-> << >>]

\* copy.deepcopy (line 144): a new top-level dict and a new nested dict
deepcopy(a) ==
    [rep |-> [reps[a] EXCEPT !.metadata = Len(metas) + 1],
     nested |-> << metas[reps[a].metadata] >>]

\* lines 149-150 without the uid line
mask_fields_no_uid(result) == [result EXCEPT !.key_hash = MASKED_ATTRIBUTE_VALUE]

\* lines 149-150 without the key_hash line
mask_fields_no_key_hash(result) == [result EXCEPT !.uid = MASKED_ATTRIBUTE_VALUE]

\* lines 149-150: result["key_hash"] = ...; result["uid"] = ...
mask_fields(result) ==
    [result EXCEPT !.key_hash = MASKED_ATTRIBUTE_VALUE,
                   !.uid = MASKED_ATTRIBUTE_VALUE]

\* ApiKeyDB.mask_secrets(value), value the dict at address a
mask_secrets(a) ==
    /\ Len(reps) < MaxReps
    /\ LET c == deepcopy(a)
           result == mask_fields(c.rep)
           heap == metas \o c.nested
       IN  /\ reps' = Append(reps, result)
           /\ metas' = heap
           /\ UNCHANGED notMask
           /\ call' = << [arg |-> a, argval |-> DeepValue(a),
                          ret |-> Len(reps) + 1,
                          retval |-> [id |-> result.id, user |-> result.user,
                                      key_hash |-> result.key_hash, uid |-> result.uid,
                                      created_at |-> result.created_at,
                                      enabled |-> result.enabled,
                                      metadata |-> heap[result.metadata]]] >>
    /\ touched' = 0

\* the caller changes a nested value of a dict that mask_secrets returned
CallerSetNested(a, k, v) ==
    /\ a > 1
    /\ metas[reps[a].metadata][k] # v
    /\ metas' = [metas EXCEPT ![reps[a].metadata][k] = v]
    /\ touched' = a
    /\ UNCHANGED <<reps, call, notMask>>

NextMask ==
    \/ \E kh \in KeyHashes, u \in UserNames, en \in BOOLEAN :
       \E md \in [MetaKeys -> MetaVals(kh)] : Export(kh, u, en, md)
    \/ \E a \in 1..Len(reps) : mask_secrets(a)
    \/ \E a \in 1..Len(reps), k \in MetaKeys, v \in {"y"} : CallerSetNested(a, k, v)



(***************************************************************************)
(* The document classes: declared fields, constraints and defaults.        *)
(***************************************************************************)
Kinds == {"user", "token", "sso", "api_key"}

\* the fields of UserDB, TokenDB, SSORequestDB and ApiKeyDB (uid: UIDFieldMixin)
Fields(kind) ==
    CASE kind = "user" -> {"name", "is_service", "nicknames"}
      [] kind = "token" -> {"user", "token", "expiry", "metadata", "service"}
      [] kind = "sso" -> {"request_id", "key", "expiry", "type"}
      [] kind = "api_key" -> {"user", "key_hash", "metadata", "created_at", "enabled", "uid"}

\* required=True with ApiKeyDB.key_hash left optional
Required_key_hash_optional(kind) ==
    CASE kind = "user" -> {"name", "is_service"}
      [] kind = "token" -> {"user", "token", "expiry", "service"}
      [] kind = "sso" -> {"request_id", "expiry", "type"}
      [] kind = "api_key" -> {"user", "enabled"}

\* required=True with SSORequestDB.type left optional
Required_type_optional(kind) ==
    CASE kind = "user" -> {"name", "is_service"}
      [] kind = "token" -> {"user", "token", "expiry", "service"}
      [] kind = "sso" -> {"request_id", "expiry"}
      [] kind = "api_key" -> {"user", "key_hash", "enabled"}

\* required=True with SSORequestDB.key required too
Required_key_required(kind) ==
    CASE kind = "user" -> {"name", "is_service"}
      [] kind = "token" -> {"user", "token", "expiry", "service"}
      [] kind = "sso" -> {"request_id", "key", "expiry", "type"}
      [] kind = "api_key" -> {"user", "key_hash", "enabled"}

\* the fields declared required=True
Required(kind) ==
    CASE kind = "user" -> {"name", "is_service"}
      [] kind = "token" -> {"user", "token", "expiry", "service"}
      [] kind = "sso" -> {"request_id", "expiry", "type"}
      [] kind = "api_key" -> {"user", "key_hash", "enabled"}

\* unique=True with ApiKeyDB.key_hash not declared unique
Unique_key_hash_not_unique(kind) ==
    CASE kind = "user" -> {"name"}
      [] kind = "token" -> {"token"}
      [] kind = "sso" -> {}
      [] kind = "api_key" -> {}

\* the fields declared unique=True
Unique(kind) ==
    CASE kind = "user" -> {"name"}
      [] kind = "token" -> {"token"}
      [] kind = "sso" -> {}
      [] kind = "api_key" -> {"key_hash"}

\* SSORequestDB.Type
Type == {"cli", "web"}

\* the fields declared as me.EnumField(Type)
EnumFields(kind) == IF kind = "sso" THEN {"type"} ELSE {}

\* default=...: the value a field takes when the constructor is given none
\* (a DictField defaults to the empty dict, created_at to the current time)
Defaults(kind) ==
    CASE kind = "user" -> [is_service |-> FALSE, nicknames |-> "{}"]
      [] kind = "token" -> [metadata |-> "{}", service |-> FALSE]
      [] kind = "sso" -> << >>
      [] kind = "api_key" -> [metadata |-> "{}", created_at |-> "now", enabled |-> TRUE]

\* Document.__init__(**values): the given values, defaults for the others;
\* nothing is validated here
Document__init__(kind, values) == values @@ Defaults(kind)

\* ApiKeyDB.__init__ (lines 139-141): the base constructor, then uid
ApiKeyDB__init__(values) ==
    LET self == Document__init__("api_key", values)
    IN  Put(self, "uid", get_uid(self))

\* the constructor of each class
Construct(kind, values) ==
    IF kind = "api_key" THEN ApiKeyDB__init__(values) ELSE Document__init__(kind, values)

\* Document.validate, run by the store before a write: a required field
\* that is None, or an enum field holding no member of the enum, is an error
validate(kind, doc) ==
    IF \E f \in Required(kind) : IsNone(doc, f)
    THEN "ValidationError"
    ELSE IF \E f \in EnumFields(kind) : ~IsNone(doc, f) /\ doc[f] \notin Type
         THEN "ValidationError"
         ELSE "ok"

\* the unique indexes: another stored document of the class holds the same
\* value in a field declared unique
NotUnique(kind, id, doc) ==
    \E d \in store[kind] :
        /\ d.id # id
        /\ \E f \in Unique(kind) :
               \/ IsNone(d.doc, f) /\ IsNone(doc, f)
               \/ ~IsNone(d.doc, f) /\ ~IsNone(doc, f) /\ d.doc[f] = doc[f]

(***************************************************************************)
(* Callers and the store.                                                  *)
(***************************************************************************)
Callers == 1..MaxCallers

Idle == [pc |-> "idle", kind |-> "none", id |-> 0, doc |-> << >>,
         op |-> "none", result |-> "none"]

InitDocs ==
    /\ mem = [c \in Callers |-> Idle]
    /\ store = [k \in Kinds |-> {}]

\* the surrogate id the store gives a new document: opaque, and the id of
\* no stored document and of no object a caller holds
FreshId ==
    CHOOSE i \in 1..MaxCallers :
        /\ \A k \in Kinds : \A d \in store[k] : d.id # i
        /\ \A c \in Callers : mem[c].id # i

\* caller c constructs a record object
New(c, kind, values) ==
    /\ mem[c].pc = "idle"
    /\ mem' = [mem EXCEPT ![c] = [pc |-> "live", kind |-> kind, id |-> 0,
                                  doc |-> Construct(kind, values),
                                  op |-> "none", result |-> "none"]]
    /\ UNCHANGED <<store, notDocs>>

\* caller c assigns to a field of its record object: obj.f = v
Assign(c, f, v) ==
    /\ mem[c].pc = "live"
    /\ f \in Fields(mem[c].kind)
    /\ IF IsNone(mem[c].doc, f) THEN TRUE ELSE mem[c].doc[f] # v
    /\ mem' = [mem EXCEPT ![c].doc = Put(@, f, v), ![c].op = "none",
                          ![c].result = "none"]
    /\ UNCHANGED <<store, notDocs>>

\* caller c saves its record object: validation, then one atomic write
\* under the unique indexes (an insert for an object with no id yet)
Save(c) ==
    LET m == mem[c]
        op == IF m.id = 0 THEN "create" ELSE "update"
        id == IF m.id = 0 THEN FreshId ELSE m.id
    IN  /\ m.pc = "live"
        /\ IF validate(m.kind, m.doc) # "ok"
           THEN /\ mem' = [mem EXCEPT ![c].op = op, ![c].result = "ValidationError"]
                /\ UNCHANGED store
           ELSE IF NotUnique(m.kind, m.id, m.doc)
           THEN /\ mem' = [mem EXCEPT ![c].op = op, ![c].result = "UniquenessViolation"]
                /\ UNCHANGED store
           ELSE /\ mem' = [mem EXCEPT ![c].op = op, ![c].result = "ok", ![c].id = id]
                /\ store' = [store EXCEPT ![m.kind] =
                                 { d \in @ : d.id # id } \cup {[id |-> id, doc |-> m.doc]}]
        /\ UNCHANGED notDocs

\* caller c deletes the stored document of its record object and lets go of
\* the object
Delete(c) ==
    LET m == mem[c]
    IN  /\ m.pc = "live"
        /\ \E d \in store[m.kind] : d.id = m.id
        /\ store' = [store EXCEPT ![m.kind] = { d \in @ : d.id # m.id }]
        /\ mem' = [mem EXCEPT ![c] = Idle]
        /\ UNCHANGED notDocs

\* a document with field f absent or set to one of S
Opt(f, S) == { << >> } \cup { f :> v : v \in S }

(***************************************************************************)
(* Expiry of Token and SSO Request records.                                *)
(***************************************************************************)
InitTime ==
    /\ now = 0
    /\ records = << >>

\* expiry is in the past only once the clock has passed it
is_expired_after(record) == now > record.expiry

\* is_expired(): a pure function of expiry and the current UTC time
is_expired(record) == now >= record.expiry

\* the lifecycle state of record i
Status(i) ==
    IF records[i].deleted THEN "REVOKED"
    ELSE IF is_expired(records[i]) THEN "EXPIRED" ELSE "ACTIVE"

\* TokenDB(...) / SSORequestDB(...) with the required expiry, saved
CreateRecord(kind, expiry) ==
    /\ Len(records) < MaxRecords
    /\ records' = Append(records, [kind |-> kind, expiry |-> expiry, deleted |-> FALSE])
    /\ UNCHANGED <<now, notTime>>

\* the UTC clock advances
Tick ==
    /\ now < MaxTime
    /\ now' = now + 1
    /\ UNCHANGED <<records, notTime>>

\* explicit deletion: revocation, or garbage collection of an expired record
Revoke(i) ==
    /\ ~records[i].deleted
    /\ records' = [records EXCEPT ![i].deleted = TRUE]
    /\ UNCHANGED <<now, notTime>>

NextTime ==
    \/ \E kind \in {"token", "sso"}, expiry \in 0..(MaxTime + 1) : CreateRecord(kind, expiry)
    \/ Tick
    \/ \E i \in 1..Len(records) : Revoke(i)

(***************************************************************************)
(* UserDB.get_roles and the RBAC backend.                                  *)
(***************************************************************************)
RoleNames == {"observer", "admin"}

\* the user the backend can resolve
BackendUsers == {"alice"}

InitRoles ==
    /\ backend = "none"
    /\ roles = << >>
    /\ rbacCalls = << >>
    /\ ret = << >>

\* the backend service's get_roles_for_user(user_db, include_remote): the
\* user's role assignments in the backend's order, remote ones left out unless
\* include_remote; an error when it cannot resolve the user
get_roles_for_user(user_db, include_remote) ==
    IF user_db \notin BackendUsers
    THEN [error |-> "UserNotFound", value |-> << >>]
    ELSE LET keep(r) == include_remote \/ ~r.remote
         IN  [error |-> "", value |-> SelectSeq(roles, keep)]

\* get_roles that always asks for remote assignments too
get_roles_always_remote(self, include_remote) ==
    IF backend = "none"
    THEN [calls |-> << >>, outcome |-> [error |-> "BackendUnavailable", value |-> << >>]]
    ELSE LET result == get_roles_for_user(self, TRUE)
         IN  [calls |-> << [user_db |-> self, include_remote |-> TRUE, reply |-> result] >>,
              outcome |-> result]

\* UserDB.get_roles (lines 49-62): the calls it makes and what it returns or
\* raises; get_rbac_backend() raises when no backend is configured
get_roles(self, include_remote) ==
    IF backend = "none"
    THEN [calls |-> << >>, outcome |-> [error |-> "BackendUnavailable", value |-> << >>]]
    ELSE LET result == get_roles_for_user(self, include_remote)
         IN  [calls |-> << [user_db |-> self, include_remote |-> include_remote,
                            reply |-> result] >>,
              outcome |-> result]

\* a caller calls user.get_roles(), with include_remote given or left to its
\* default
CallGetRoles(self, given, flag) ==
    LET include_remote == IF given THEN flag ELSE TRUE
        r == get_roles(self, include_remote)
    IN  /\ given \/ flag
        /\ rbacCalls' = r.calls
        /\ ret' = << [self |-> self, include_remote |-> include_remote,
                      configured |-> backend # "none",
                      outcome |-> r.outcome] >>
        /\ UNCHANGED <<backend, roles, notRoles>>

\* configuration selects the RBAC backend, or none
Configure(b) ==
    /\ backend # b
    /\ backend' = b
    /\ UNCHANGED <<roles, rbacCalls, ret, notRoles>>

\* the backend gains a role assignment, local or remote
Grant(name, remote) ==
    /\ Len(roles) < MaxRoles
    /\ roles' = Append(roles, [name |-> name, remote |-> remote])
    /\ UNCHANGED <<backend, rbacCalls, ret, notRoles>>

\* the backend loses its first role assignment
Revoke1 ==
    /\ Len(roles) > 0
    /\ roles' = Tail(roles)
    /\ UNCHANGED <<backend, rbacCalls, ret, notRoles>>

NextRoles ==
    \/ \E u \in UserNames, given \in BOOLEAN, flag \in BOOLEAN : CallGetRoles(u, given, flag)
    \/ \E b \in {"none", "rbac"} : Configure(b)
    \/ \E name \in RoleNames, remote \in BOOLEAN : Grant(name, remote)
    \/ Revoke1

(***************************************************************************)
(* Specifications.                                                         *)
(***************************************************************************)
Init == InitMask /\ InitDocs /\ InitTime /\ InitRoles

\* ApiKeyDB.mask_secrets and the callers of it
SpecMask == Init /\ [][NextMask]_vars

\* what callers pass to the ApiKeyDB constructor
ApiKeyValues ==
    { u @@ k @@ i @@ e : u \in Opt("user", {"", "alice"}),
                         k \in Opt("key_hash", {"", "h1"}),
                         i \in Opt("uid", {"forged"}),
                         e \in Opt("enabled", {FALSE}) }

\* one ApiKeyDB object: construction, field assignment, save, delete
NextApiKey ==
    \/ \E v \in ApiKeyValues : New(1, "api_key", v)
    \/ \E kh \in KeyHashes : Assign(1, "key_hash", kh)
    \/ Assign(1, "uid", "forged")
    \/ \E b \in BOOLEAN : Assign(1, "enabled", b)
    \/ Assign(1, "metadata", "{team: ops}")
    \/ Save(1)
    \/ Delete(1)

SpecApiKey == Init /\ [][NextApiKey]_vars

\* what callers pass to the constructors of the classes with a unique field
UniqueValues(kind) ==
    CASE kind = "user" -> { [name |-> n] : n \in UserNames }
      [] kind = "token" -> { [user |-> "alice", token |-> t, expiry |-> "e1"] : t \in {"t1", "t2"} }
      [] kind = "api_key" -> { [user |-> "alice", key_hash |-> h] : h \in KeyHashes }

\* the field a caller reassigns before an update, and the values it takes
UniqueField(kind) ==
    CASE kind = "user" -> "name"
      [] kind = "token" -> "token"
      [] kind = "api_key" -> "key_hash"
      [] OTHER -> "none"

\* (a token is issued and revoked, never rewritten)
ReassignedValues(kind) ==
    CASE kind = "user" -> UserNames
      [] kind = "api_key" -> KeyHashes
      [] OTHER -> {}

\* concurrent callers creating, updating and deleting users, tokens and keys
NextStore ==
    \/ \E c \in Callers, kind \in {"user", "token", "api_key"} :
       \E v \in UniqueValues(kind) : New(c, kind, v)
    \/ \E c \in Callers : \E v \in ReassignedValues(mem[c].kind) :
           Assign(c, UniqueField(mem[c].kind), v)
    \/ \E c \in Callers : Save(c)
    \/ \E c \in Callers : Delete(c)

SpecStore == Init /\ [][NextStore]_vars

\* what callers pass to the SSORequestDB constructor: every type with and
\* without a key, and the same with one of the required fields left out
SSOValues ==
    LET full == { [request_id |-> "r1", expiry |-> "e1", type |-> t] @@ k :
                      t \in {"cli", "web", "saml"}, k \in Opt("key", {"k1"}) }
    IN  full \cup { Unset(v, f) : v \in full, f \in {"request_id", "expiry", "type"} }

\* callers creating and deleting SSO requests
NextSSO ==
    \/ \E c \in Callers : \E v \in SSOValues : New(c, "sso", v)
    \/ \E c \in Callers : Save(c)
    \/ \E c \in Callers : Delete(c)

SpecSSO == Init /\ [][NextSSO]_vars

\* Token and SSO Request records over time
SpecTime == Init /\ [][NextTime]_vars

\* get_roles against a backend whose configuration and assignments change
SpecRoles == Init /\ [][NextRoles]_vars

\* every operation of the module
Next == NextMask \/ NextApiKey \/ NextStore \/ NextSSO \/ NextTime \/ NextRoles

Spec == Init /\ [][Next]_vars

(***************************************************************************)
(* Claims about mask_secrets (checked under SpecMask).                     *)
(***************************************************************************)
\* the fields of a representation other than key_hash and uid
OtherFields == {"id", "user", "created_at", "enabled", "metadata"}

\* the literal values mask_secrets has to hide: the argument's key_hash and uid
Secrets(c) == {c.argval.key_hash, c.argval.uid}

\* C1: mask_secrets(r) returns a mapping whose key_hash and uid both equal the
\* masking sentinel and whose every other field has exactly the value it has
\* in r, whatever the enabled flag.
C1_MaskedAndOthersPreserved ==
    \A i \in 1..Len(call) :
        /\ call[i].retval.key_hash = MASKED_ATTRIBUTE_VALUE
        /\ call[i].retval.uid = MASKED_ATTRIBUTE_VALUE
        /\ \A f \in OtherFields : call[i].retval[f] = call[i].argval[f]

\* C1 witness: mask_secrets has returned for a disabled key carrying a real hash
C1_Witness ==
    /\ Len(call) = 1
    /\ ~call[1].argval.enabled
    /\ call[1].argval.key_hash \in KeyHashes
    /\ call[1].argval.uid = derive_uid(call[1].argval.key_hash)

C3_InputNeverMutated ==
    [][ /\ \A b \in 1..Len(reps) :
               b # touched' =>
                   /\ reps'[b] = reps[b]
                   /\ metas'[reps'[b].metadata] = metas[reps[b].metadata]
        /\ Len(reps) > 0 =>
               /\ reps'[1].key_hash \in KeyHashes
               /\ reps'[1].uid = derive_uid(reps'[1].key_hash) ]_vars

\* C3 witness: the export was masked and the caller changed a nested value of
\* the returned copy, which now differs from the export's
C3_Witness ==
    /\ Len(call) = 1
    /\ call[1].arg = 1
    /\ touched = call[1].ret
    /\ metas[reps[touched].metadata] # metas[reps[1].metadata]

(***************************************************************************)
(* Claims about ApiKeyDB objects (checked under SpecApiKey).               *)
(***************************************************************************)
\* the ApiKeyDB objects callers hold
ApiKeyObjects == { c \in Callers : mem[c].kind = "api_key" }

Missing(doc, f) == IsNone(doc, f)

MissingOrEmpty(doc, f) == IF IsNone(doc, f) THEN TRUE ELSE doc[f] = ""

\* C4: in every reachable state of an API Key record uid equals
\* derive_uid("api_key", key_hash), whatever was passed to the constructor and
\* whatever field was assigned afterwards; so records with the same key_hash
\* have the same uid.
C4_UidAlwaysDerived ==
    /\ \A c \in ApiKeyObjects :
           /\ ~IsNone(mem[c].doc, "uid")
           /\ mem[c].doc["uid"] = get_uid(mem[c].doc)
    /\ \A d \in store["api_key"] : d.doc["uid"] = derive_uid(d.doc["key_hash"])

\* C6 as claimed: no ApiKeyDB object with a missing or empty user or key_hash
\* ever comes into existence.
C6_NoInvalidObject ==
    \A c \in ApiKeyObjects :
        /\ ~MissingOrEmpty(mem[c].doc, "user")
        /\ ~MissingOrEmpty(mem[c].doc, "key_hash")

\* C6 amended: construction never fails; the required-field check runs when
\* the record is validated for a write, where a record whose user or key_hash
\* is missing is rejected with ValidationError and is never persisted.
C6_MissingRejectedAtWrite ==
    /\ \A c \in ApiKeyObjects :
           (mem[c].op \in {"create", "update"}
               /\ (Missing(mem[c].doc, "user") \/ Missing(mem[c].doc, "key_hash")))
           => mem[c].result = "ValidationError"
    /\ \A d \in store["api_key"] :
           ~Missing(d.doc, "user") /\ ~Missing(d.doc, "key_hash")

\* C6 witness: an object constructed without key_hash exists, its uid derived
\* from the empty string, and its save was rejected
C6_Witness ==
    \E c \in ApiKeyObjects :
        /\ Missing(mem[c].doc, "key_hash")
        /\ mem[c].doc["uid"] = derive_uid("")
        /\ mem[c].op = "create"
        /\ mem[c].result = "ValidationError"
        /\ store["api_key"] = {}

(***************************************************************************)
(* Claims about the unique indexes (checked under SpecStore).              *)
(***************************************************************************)
\* no field value is held by two stored documents of a class
NoDuplicate(kind, f) ==
    \A d1 \in store[kind], d2 \in store[kind] :
        d1 # d2 => d1.id # d2.id /\ d1.doc[f] # d2.doc[f]

\* the credential field of each class the claim names
CredentialField(kind) ==
    CASE kind = "user" -> "name"
      [] kind = "token" -> "token"
      [] kind = "api_key" -> "key_hash"

\* another stored document holds the credential of caller c's object
Held(c) ==
    \E d \in store[mem[c].kind] :
        /\ d.id # mem[c].id
        /\ d.doc[CredentialField(mem[c].kind)] = mem[c].doc[CredentialField(mem[c].kind)]

\* a write by caller c has just returned
Wrote(c) == mem'[c] # mem[c] /\ mem'[c].op \in {"create", "update"}

\* C5: the store never holds two API Keys with the same key_hash, two Tokens
\* with the same token or two Users with the same name; of two callers that
\* created an API Key with the same key_hash never both succeeded; and every
\* write succeeds exactly when no other stored record holds the credential
\* at that instant and fails with UniquenessViolation otherwise, so of two
\* colliding creates, in any interleaving, exactly one succeeds.
C5_UniqueCredentials ==
    /\ [](/\ NoDuplicate("api_key", "key_hash")
          /\ NoDuplicate("token", "token")
          /\ NoDuplicate("user", "name")
          /\ \A c1 \in ApiKeyObjects, c2 \in ApiKeyObjects :
                 (/\ c1 # c2
                  /\ mem[c1].op = "create" /\ mem[c2].op = "create"
                  /\ mem[c1].doc["key_hash"] = mem[c2].doc["key_hash"])
                 => ~(mem[c1].result = "ok" /\ mem[c2].result = "ok"))
    /\ [][\A c \in Callers :
              Wrote(c) => mem'[c].result = IF Held(c) THEN "UniquenessViolation" ELSE "ok"]_vars

\* C5 witness: two callers created an API Key with the same key_hash; one
\* create succeeded, the other failed with UniquenessViolation
C5_Witness ==
    \E c1 \in ApiKeyObjects, c2 \in ApiKeyObjects :
        /\ c1 # c2
        /\ mem[c1].op = "create" /\ mem[c2].op = "create"
        /\ mem[c1].doc["key_hash"] = mem[c2].doc["key_hash"]
        /\ mem[c1].result = "ok"
        /\ mem[c2].result = "UniquenessViolation"
        /\ Cardinality(store["api_key"]) = 1

(***************************************************************************)
(* Claims about SSORequestDB (checked under SpecSSO).                      *)
(***************************************************************************)
Populated(doc, f) == IF IsNone(doc, f) THEN FALSE ELSE doc[f] # ""

\* the SSORequestDB objects callers hold
SSOObjects == { c \in Callers : mem[c].kind = "sso" }

\* C8 as claimed: every SSO Request record has key populated if and only if
\* its type is cli.
C8_KeyIffCli ==
    \A d \in store["sso"] : Populated(d.doc, "key") <=> d.doc["type"] = "cli"

\* C8 amended: every persisted SSO Request record has a request_id, an expiry
\* and a type that is cli or web; its key is optional whatever the type (a web
\* record may carry a key and a cli record may lack one).
C8_TypeIsCliOrWeb ==
    \A d \in store["sso"] :
        /\ ~IsNone(d.doc, "request_id")
        /\ ~IsNone(d.doc, "expiry")
        /\ ~IsNone(d.doc, "type")
        /\ d.doc["type"] \in {"cli", "web"}

\* C8 witness: a persisted web request that carries a key
C8_Witness ==
    \E d \in store["sso"] : d.doc["type"] = "web" /\ Populated(d.doc, "key")

C9_GetRolesDelegates ==
    \A i \in 1..Len(ret) :
        IF ret[i].configured
        THEN /\ Len(rbacCalls) = 1
             /\ rbacCalls[1].user_db = ret[i].self
             /\ rbacCalls[1].include_remote = ret[i].include_remote
             /\ ret[i].outcome = rbacCalls[1].reply
        ELSE /\ rbacCalls = << >>
             /\ ret[i].outcome.error = "BackendUnavailable"

\* C9 witness: get_roles(include_remote=False) returned the one local role of
\* a user who also has a remote one
C9_Witness ==
    /\ Len(ret) = 1
    /\ ret[1].configured
    /\ ~ret[1].include_remote
    /\ ret[1].outcome.error = ""
    /\ Len(ret[1].outcome.value) = 1
    /\ Len(roles) = 2
    /\ roles[1].remote /\ ~roles[2].remote
    /\ ret[1].outcome.value[1] = roles[2]

====
